---- MODULE Spec2Model ----
(***************************************************************************)
(* Movement and connectivity engine of HIDDEN_DIMENSIONS (src/store.ts):   *)
(* the zustand game store (level, group states, player, camera view), the  *)
(* world-position resolver, the neighbour function, the breadth-first      *)
(* search of movePlayer and the timers that walk a found path.             *)
(*                                                                         *)
(* Coordinates are held as integers in units of 1/Scale, so that the       *)
(* code's real-valued thresholds (0.15, 0.4) are compared exactly.         *)
(* Rotations are whole quarter turns, for which three.js' applyAxisAngle   *)
(* is exact up to floating-point noise far below every threshold.          *)
(***************************************************************************)
EXTENDS Integers, Sequences, FiniteSets, TLC

\* ------------------------------------------------------------------ bounds
\* Grid resolution: one world unit is Scale grid steps.
Scale == 2
\* |rotationValue| explored for a rotator group.
MaxRot == 2
\* |offsetValue| explored for a slider group, in world units.
MaxOffset == 2
\* |globalRotationIndex| explored.
MaxIndex == 1
\* Pending step timers (overlapping walks) explored.
MaxTimers == 1
\* Walks under way at once where overlapping walks are explored.
MaxWalks == 2
\* initGame calls suspended in initialize at once.
MaxCalls == 2
\* Nodes the world generator's list holds at most.
MaxNodes == 2

\* ------------------------------------------------------------------ vectors
\* undefined: an absent pivot, limit, path or array element; an absent axis
NoVal == <<>>
NoAxis == "undefined"

Vec(x, y, z) == <<x * Scale, y * Scale, z * Scale>>
VAdd(a, b) == <<a[1] + b[1], a[2] + b[2], a[3] + b[3]>>
VSub(a, b) == <<a[1] - b[1], a[2] - b[2], a[3] - b[3]>>
VMul(a, k) == <<a[1] * k, a[2] * k, a[3] * k>>
Abs(x) == IF x < 0 THEN -x ELSE x
Min(a, b) == IF a < b THEN a ELSE b
Max(a, b) == IF a > b THEN a ELSE b

\* Math.round on a rational num/Scale: the nearest integer, halves upward.
MathRound(num) == (2 * num + Scale) \div (2 * Scale)

\* cos and sin of k quarter turns.
QuarterCos(k) == CASE k % 4 = 0 -> 1 [] k % 4 = 1 -> 0 [] k % 4 = 2 -> -1 [] OTHER -> 0
QuarterSin(k) == CASE k % 4 = 0 -> 0 [] k % 4 = 1 -> 1 [] k % 4 = 2 -> 0 [] OTHER -> -1

\* applyAxisAngle with PI/4 per unit in place of PI/2 (odd values fall back
\* to the grid).
applyAxisAngleY_eighth(v, k) ==
    << v[1] * QuarterCos(k \div 2) + v[3] * QuarterSin(k \div 2),
       v[2],
       v[3] * QuarterCos(k \div 2) - v[1] * QuarterSin(k \div 2) >>

\* Vector3.applyAxisAngle((0,1,0), k * PI/2): right-handed turn about +Y.
applyAxisAngleY(v, k) ==
    << v[1] * QuarterCos(k) + v[3] * QuarterSin(k),
       v[2],
       v[3] * QuarterCos(k) - v[1] * QuarterSin(k) >>

\* Euler rotation [k * PI/2, 0, 0] of a three.js group: a turn about +X.
applyEulerX(v, k) ==
    << v[1],
       v[2] * QuarterCos(k) - v[3] * QuarterSin(k),
       v[2] * QuarterSin(k) + v[3] * QuarterCos(k) >>

axisVec(axis) ==
    << IF axis = "x" THEN 1 ELSE 0,
       IF axis = "y" THEN 1 ELSE 0,
       IF axis = "z" THEN 1 ELSE 0 >>

\* ------------------------------------------------------------------ levels
GameNode(id, pos, groupId, type, isWalkable, isGoal) ==
    [id |-> id, localPos |-> pos, groupId |-> groupId, type |-> type,
     isWalkable |-> isWalkable, isGoal |-> isGoal]

LevelGroup(id, type, initialPos, pivot, axis, limit) ==
    [id |-> id, type |-> type, initialPos |-> initialPos, pivot |-> pivot,
     axis |-> axis, limit |-> limit]

EmptyLevel == [nodes |-> <<>>, groups |-> <<>>, startNode |-> 0]

\* A rotating beam between two platforms (after generateMortiseTest): the
\* start beside the near platform, the goal dome behind the far one, where
\* only the front and back views join it, and a solid lattice.
TenonLevel ==
    [nodes |-> <<
        GameNode(0, Vec(0, 0, 1), "base", "CUBE", TRUE, FALSE),
        GameNode(1, Vec(0, 0, 0), "base", "CUBE", TRUE, FALSE),
        GameNode(2, Vec(0, 0, 0), "rotator", "CUBE", TRUE, FALSE),
        GameNode(3, Vec(1, 0, 0), "rotator", "CUBE", TRUE, FALSE),
        GameNode(4, Vec(2, 0, 0), "rotator", "CUBE", TRUE, FALSE),
        GameNode(5, Vec(4, 0, 0), "base", "CUBE", TRUE, FALSE),
        GameNode(6, Vec(4, 1, -1), "base", "DOME", TRUE, TRUE),
        GameNode(7, Vec(0, 1, -1), "base", "LATTICE", FALSE, FALSE) >>,
     groups |-> <<
        LevelGroup("base", "STATIC", Vec(0, 0, 0), NoVal, NoAxis, NoVal),
        LevelGroup("rotator", "ROTATOR", Vec(1, 0, 0), Vec(1, 0, 0), "y", NoVal) >>,
     startNode |-> 0]

\* A lift with a configured limit beside the start, below the goal dome. No
\* generator of store.ts builds a slider group; the level is a LevelData value
\* with a slider shaped after lift_a of the earlier hand-written level
\* (axis y, limit [0, 4]), its travel shortened to one unit.
LiftLevel ==
    [nodes |-> <<
        GameNode(0, Vec(0, 0, 0), "base", "CUBE", TRUE, FALSE),
        GameNode(1, Vec(0, 0, 0), "lift_a", "CUBE", TRUE, FALSE),
        GameNode(2, Vec(2, 1, 0), "base", "DOME", TRUE, TRUE),
        GameNode(3, Vec(0, -1, 0), "base", "PILLAR", FALSE, FALSE) >>,
     groups |-> <<
        LevelGroup("base", "STATIC", Vec(0, 0, 0), NoVal, NoAxis, NoVal),
        LevelGroup("lift_a", "SLIDER", Vec(1, 0, 0), NoVal, "y", <<0, Scale>>) >>,
     startNode |-> 0]

\* A carriage sliding along X with no limit configured (LevelGroup.limit is
\* optional), ferrying between the start and the far block under the goal
\* dome.
FerryLevel ==
    [nodes |-> <<
        GameNode(0, Vec(0, 0, 0), "base", "CUBE", TRUE, FALSE),
        GameNode(1, Vec(0, 0, 0), "ferry", "CUBE", TRUE, FALSE),
        GameNode(2, Vec(3, 0, 0), "base", "CUBE", TRUE, FALSE),
        GameNode(3, Vec(3, 1, 0), "base", "DOME", TRUE, TRUE) >>,
     groups |-> <<
        LevelGroup("base", "STATIC", Vec(0, 0, 0), NoVal, NoAxis, NoVal),
        LevelGroup("ferry", "SLIDER", Vec(1, 0, 0), NoVal, "x", NoVal) >>,
     startNode |-> 0]

\* A static level for the alignment rules: two neighbours with a solid block
\* at their midpoint, and a far pair three units behind them that the front
\* view lays over them on screen.
EscherLevel ==
    [nodes |-> <<
        GameNode(0, Vec(0, 0, 0), "base", "CUBE", TRUE, FALSE),
        GameNode(1, Vec(1, 0, 0), "base", "CUBE", TRUE, FALSE),
        GameNode(2, <<Scale \div 2, 0, 0>>, "base", "WALL", FALSE, FALSE),
        GameNode(3, Vec(0, 0, 3), "base", "CUBE", TRUE, FALSE),
        GameNode(4, Vec(1, 0, 3), "base", "DOME", TRUE, TRUE) >>,
     groups |-> <<
        LevelGroup("base", "STATIC", Vec(0, 0, 0), NoVal, NoAxis, NoVal) >>,
     startNode |-> 0]

Levels == <<TenonLevel, LiftLevel, FerryLevel, EscherLevel>>

NodeIds(nodes) == {nodes[i].id : i \in 1..Len(nodes)}
GroupIds(groups) == {groups[i].id : i \in 1..Len(groups)}

\* Array.prototype.find: the first element with the id, NoVal when absent.
FindNode(nodes, id) ==
    IF id \in NodeIds(nodes)
    THEN nodes[CHOOSE i \in 1..Len(nodes) :
                 nodes[i].id = id /\ \A j \in 1..(i - 1) : nodes[j].id # id]
    ELSE NoVal

FindGroup(groups, id) ==
    IF id \in GroupIds(groups)
    THEN groups[CHOOSE i \in 1..Len(groups) :
                  groups[i].id = id /\ \A j \in 1..(i - 1) : groups[j].id # id]
    ELSE NoVal

\* Every id a caller may name: the ids of the largest level and one beyond.
AnyNodeId == 0..Len(TenonLevel.nodes)
AnyGroupId == UNION {GroupIds(Levels[i].groups) : i \in 1..Len(Levels)} \cup {"ghost"}
\* Drag and click deltas, in grid steps: a full unit and a fraction either way.
Deltas == {-Scale, -1, 1, Scale}

\* ------------------------------------------------------------------ state
VARIABLES
    status,               \* GameStatus
    level,                \* LevelData
    groupStates,          \* Record<string, GroupState>
    playerNodeId,
    globalRotationIndex,
    isRotatingView,
    stepTimers,           \* pending setTimeout(() => step(idx), 300), oldest first
    rotTimers,            \* pending setTimeout(() => set({isRotatingView: false}), 800)
    lastMove,             \* what the latest movePlayer call did, until the next store call
    _nodes,               \* WorldGenerator._nodes
    _nodeId,              \* WorldGenerator._nodeId
    goalCalls,            \* the (group, position) pairs addNode was given isGoal = true for
    isInitialized,        \* AudioService.isInitialized
    toneStarting,         \* initialize() calls suspended at "await Tone.start()"
    chains                \* how many times the synth/effects chain and the loop were built

generatorVars == <<_nodes, _nodeId, goalCalls>>
audioVars == <<isInitialized, toneStarting, chains>>

vars == <<status, level, groupStates, playerNodeId, globalRotationIndex,
          isRotatingView, stepTimers, rotTimers, lastMove,
          _nodes, _nodeId, goalCalls, isInitialized, toneStarting, chains>>

\* result: "guard" (early return), "TypeError" (thrown), "nopath" (queue
\* exhausted), "path" (found); dequeued counts the paths the search shifted
\* off its queue.
Move(target, start, result, path, dequeued) ==
    [target |-> target, start |-> start, result |-> result,
     path |-> path, dequeued |-> dequeued]
NoMove == Move(-1, -1, "none", NoVal, 0)

\* ------------------------------------------------------------------ resolver
\* getWorldPosition without "local.add(pivot)" after the turn.
getWorldPosition_noPivotBack(node, gs) ==
    IF node.groupId \notin DOMAIN gs THEN node.localPos
    ELSE LET state == gs[node.groupId]
             turned == IF state.type = "ROTATOR" /\ state.pivot # NoVal
                       THEN applyAxisAngleY(VSub(node.localPos, state.pivot),
                                            state.rotationValue)
                       ELSE node.localPos
             slid == IF state.type = "SLIDER" /\ state.axis # NoAxis
                     THEN VAdd(turned, VMul(axisVec(state.axis), state.offsetValue))
                     ELSE turned
         IN VAdd(slid, state.initialPos)

\* movePlayer's getWorldPosition, positions in grid steps.
getWorldPosition(node, gs) ==
    IF node.groupId \notin DOMAIN gs THEN node.localPos
    ELSE LET state == gs[node.groupId]
             turned == IF state.type = "ROTATOR" /\ state.pivot # NoVal
                       THEN VAdd(applyAxisAngleY(VSub(node.localPos, state.pivot),
                                                 state.rotationValue),
                                 state.pivot)
                       ELSE node.localPos
             slid == IF state.type = "SLIDER" /\ state.axis # NoAxis
                     THEN VAdd(turned, VMul(axisVec(state.axis), state.offsetValue))
                     ELSE turned
         IN VAdd(slid, state.initialPos)

\* Where MechanismGroup places a node once its spring has settled: the nested
\* three.js groups of the ROTATOR, SLIDER and static branches.
MechanismGroupPosition(node, gs) ==
    IF node.groupId \notin DOMAIN gs THEN node.localPos
    ELSE LET state == gs[node.groupId]
             pivot == IF state.pivot # NoVal THEN state.pivot ELSE <<0, 0, 0>>
             axisIdx == IF state.axis = "x" THEN 1 ELSE IF state.axis = "y" THEN 2 ELSE 3
             vec == [i \in 1..3 |-> IF i = axisIdx THEN state.offsetValue ELSE 0]
         IN IF state.type = "ROTATOR"
            THEN VAdd(state.initialPos,
                      VAdd(pivot, applyEulerX(VSub(node.localPos, pivot),
                                              state.rotationValue)))
            ELSE IF state.type = "SLIDER"
                 THEN VAdd(VAdd(vec, state.initialPos), node.localPos)
                 ELSE VAdd(state.initialPos, node.localPos)

\* const worldPositions = new Map(); level.nodes.forEach(n => set(n.id, ...))
WorldPositions(nodes, gs) ==
    [id \in NodeIds(nodes) |-> getWorldPosition(FindNode(nodes, id), gs)]

\* ------------------------------------------------------------------ neighbours
DistSq(a, b) ==
    (a[1] - b[1]) * (a[1] - b[1]) + (a[2] - b[2]) * (a[2] - b[2])
        + (a[3] - b[3]) * (a[3] - b[3])

\* The physical check accepting only targets that are not higher.
PhysicalCheck_noClimb(a, b) ==
    /\ 400 * DistSq(a, b) > 289 * Scale * Scale
    /\ 400 * DistSq(a, b) < 529 * Scale * Scale
    /\ b[2] <= a[2]

\* Math.abs(currentPos.distanceTo(targetPos) - 1.0) < 0.15, squared:
\* 0.85^2 < d^2 < 1.15^2 with d^2 = DistSq / Scale^2.
PhysicalCheck(a, b) ==
    /\ 400 * DistSq(a, b) > 289 * Scale * Scale
    /\ 400 * DistSq(a, b) < 529 * Scale * Scale

\* d < THRESHOLD (0.4) for a grid distance d
Below(d) == 5 * d < 2 * Scale
\* Math.abs(d - 1.0) < THRESHOLD
NearOne(d) == 5 * Abs(d - Scale) < 2 * Scale

\* The % of JavaScript: the remainder takes the sign of the dividend.
JsRem(a, n) == IF a >= 0 THEN a % n ELSE -((-a) % n)

\* const viewIndex = rawIndex % 4, without the "+ 4) % 4" wrap.
ViewIndex_noWrap(index) == JsRem(index, 4)

\* const viewIndex = ((rawIndex % 4) + 4) % 4
ViewIndex(index) == JsRem(JsRem(index, 4) + 4, 4)

\* The optical-bridge marker of a node: GameNode declares no such field, so
\* reading it gives undefined, which is falsy.
opticalMarker(node) ==
    "opticalBridge" \in DOMAIN node /\ node.opticalBridge

\* The "Visual Check" of getNeighbors.
VisualCheck(a, b, index) ==
    LET dx == Abs(a[1] - b[1])
        dy == Abs(a[2] - b[2])
        dz == Abs(a[3] - b[3])
        viewIndex == ViewIndex(index)
    IN IF viewIndex \in {0, 2}
       THEN (Below(dx) /\ NearOne(dy)) \/ (Below(dy) /\ NearOne(dx))
       ELSE IF viewIndex \in {1, 3}
            THEN (Below(dz) /\ NearOne(dy)) \/ (Below(dy) /\ NearOne(dz))
            ELSE FALSE

\* getNeighbors without "if (!potential.isWalkable) return".
getNeighbors_anyBlock(currentId, nodes, wp, index) ==
    LET accept(potential) ==
            /\ potential.id # currentId
            /\ \/ PhysicalCheck(wp[currentId], wp[potential.id])
               \/ VisualCheck(wp[currentId], wp[potential.id], index)
        found == SelectSeq(nodes, accept)
    IN [i \in 1..Len(found) |-> found[i].id]

\* getNeighbors walking level.nodes from the last node to the first.
getNeighbors_reversed(currentId, nodes, wp, index) ==
    LET accept(potential) ==
            /\ potential.id # currentId
            /\ potential.isWalkable
            /\ \/ PhysicalCheck(wp[currentId], wp[potential.id])
               \/ VisualCheck(wp[currentId], wp[potential.id], index)
        found == SelectSeq(nodes, accept)
    IN [i \in 1..Len(found) |-> found[Len(found) + 1 - i].id]

\* getNeighbors testing isWalkable for the visual check only.
getNeighbors_solidSteps(currentId, nodes, wp, index) ==
    LET accept(potential) ==
            /\ potential.id # currentId
            /\ \/ PhysicalCheck(wp[currentId], wp[potential.id])
               \/ /\ potential.isWalkable
                  /\ VisualCheck(wp[currentId], wp[potential.id], index)
        found == SelectSeq(nodes, accept)
    IN [i \in 1..Len(found) |-> found[i].id]

\* getNeighbors(currentId): the ids pushed, in node-list order.
getNeighbors(currentId, nodes, wp, index) ==
    LET accept(potential) ==
            /\ potential.id # currentId
            /\ potential.isWalkable
            /\ \/ PhysicalCheck(wp[currentId], wp[potential.id])
               \/ VisualCheck(wp[currentId], wp[potential.id], index)
        found == SelectSeq(nodes, accept)
    IN [i \in 1..Len(found) |-> found[i].id]

\* worldPositions.get(currentId)! is undefined and its distanceTo is called
\* for the first walkable node: a TypeError leaves movePlayer.
Throws(currentId, nodes) ==
    /\ currentId \notin NodeIds(nodes)
    /\ \E i \in 1..Len(nodes) : nodes[i].isWalkable

\* ------------------------------------------------------------------ search
RECURSIVE Enqueue_fromStart(_, _, _, _)
\* Enqueue pushing [start, neighbor] in place of [...currentPath, neighbor].
Enqueue_fromStart(n, currentPath, queue, visited) ==
    IF n = <<>> THEN [queue |-> queue, visited |-> visited]
    ELSE IF Head(n) \in visited
         THEN Enqueue_fromStart(Tail(n), currentPath, queue, visited)
         ELSE Enqueue_fromStart(Tail(n), currentPath,
                                Append(queue, <<currentPath[1], Head(n)>>),
                                visited \cup {Head(n)})

RECURSIVE Enqueue_onPath(_, _, _, _)
\* Enqueue with no visited.add: a neighbour is skipped only when it already
\* lies on the path being extended.
Enqueue_onPath(n, currentPath, queue, visited) ==
    IF n = <<>> THEN [queue |-> queue, visited |-> visited]
    ELSE IF \E i \in 1..Len(currentPath) : currentPath[i] = Head(n)
         THEN Enqueue_onPath(Tail(n), currentPath, queue, visited)
         ELSE Enqueue_onPath(Tail(n), currentPath,
                             Append(queue, Append(currentPath, Head(n))),
                             visited)

RECURSIVE Enqueue(_, _, _, _)
\* for (const neighbor of n) if (!visited.has(neighbor)) { add; push }
Enqueue(n, currentPath, queue, visited) ==
    IF n = <<>> THEN [queue |-> queue, visited |-> visited]
    ELSE IF Head(n) \in visited
         THEN Enqueue(Tail(n), currentPath, queue, visited)
         ELSE Enqueue(Tail(n), currentPath,
                      Append(queue, Append(currentPath, Head(n))),
                      visited \cup {Head(n)})

RECURSIVE Search_pop(_, _, _, _, _, _, _)
\* Search taking the newest path (queue.pop) in place of the oldest (shift).
Search_pop(queue, visited, dequeued, target, nodes, wp, index) ==
    IF queue = <<>> THEN [path |-> NoVal, dequeued |-> dequeued]
    ELSE LET currentPath == queue[Len(queue)]
             curr == currentPath[Len(currentPath)]
         IN IF curr = target
            THEN [path |-> currentPath, dequeued |-> dequeued + 1]
            ELSE LET e == Enqueue(getNeighbors(curr, nodes, wp, index),
                                  currentPath, SubSeq(queue, 1, Len(queue) - 1),
                                  visited)
                 IN Search_pop(e.queue, e.visited, dequeued + 1, target, nodes, wp, index)

RECURSIVE Search(_, _, _, _, _, _, _)
\* while (queue.length > 0) { shift; goal test; expand }; dequeued counts the
\* paths shifted off the queue.
Search(queue, visited, dequeued, target, nodes, wp, index) ==
    IF queue = <<>> THEN [path |-> NoVal, dequeued |-> dequeued]
    ELSE LET currentPath == Head(queue)
             curr == currentPath[Len(currentPath)]
         IN IF curr = target
            THEN [path |-> currentPath, dequeued |-> dequeued + 1]
            ELSE LET e == Enqueue(getNeighbors(curr, nodes, wp, index),
                                  currentPath, Tail(queue), visited)
                 IN Search(e.queue, e.visited, dequeued + 1, target, nodes, wp, index)

\* The search of movePlayer from the player's node.
FindPath(start, target, nodes, gs, index) ==
    Search(<< <<start>> >>, {start}, 0, target, nodes,
           WorldPositions(nodes, gs), index)

\* ------------------------------------------------------------------ store
Init ==
    /\ status = "IDLE"
    /\ level = EmptyLevel
    /\ groupStates = << >>
    /\ playerNodeId = 0
    /\ globalRotationIndex = 0
    /\ isRotatingView = FALSE
    /\ stepTimers = <<>>
    /\ rotTimers = 0
    /\ lastMove = NoMove
    /\ _nodes = <<>>
    /\ _nodeId = 0
    /\ goalCalls = {}
    /\ isInitialized = FALSE
    /\ toneStarting = 0
    /\ chains = 0

\* regenerateWorld step 3: one fresh GroupState per group (a later group
\* with the same id overwrites an earlier one).
InitialStates(groups) ==
    [id \in GroupIds(groups) |->
        LET g == groups[CHOOSE i \in 1..Len(groups) :
                          groups[i].id = id /\ \A j \in (i + 1)..Len(groups) : groups[j].id # id]
        IN [id |-> g.id, type |-> g.type, initialPos |-> g.initialPos,
            pivot |-> g.pivot, axis |-> g.axis,
            rotationValue |-> 0, offsetValue |-> 0]]

RECURSIVE LowestWalkable(_, _, _, _)
\* nodes.forEach(n => if (n.isWalkable && n.localPos[1] < minY) {...})
LowestWalkable(nodes, i, minY, startNode) ==
    IF i > Len(nodes) THEN startNode
    ELSE IF nodes[i].isWalkable /\ nodes[i].localPos[2] < minY
         THEN LowestWalkable(nodes, i + 1, nodes[i].localPos[2], nodes[i].id)
         ELSE LowestWalkable(nodes, i + 1, minY, startNode)

StartNode(nodes) ==
    LowestWalkable(nodes, 1, 999 * Scale, IF nodes = <<>> THEN 0 ELSE nodes[1].id)

Regenerate(pick) ==
    /\ level' = Levels[pick]
    /\ groupStates' = InitialStates(Levels[pick].groups)
    /\ playerNodeId' = StartNode(Levels[pick].nodes)
    /\ globalRotationIndex' = 0
    /\ status' = "PLAYING"
    /\ UNCHANGED <<isRotatingView, stepTimers, rotTimers>>

\* AudioService.initialize run from its guard to its end with no other call
\* in between: the chain and the ambience loop are built unless the flag is
\* already set.
Initialize ==
    /\ isInitialized' = TRUE
    /\ chains' = IF isInitialized THEN chains ELSE chains + 1

\* initGame, offered by the UI while the status is IDLE, when its await
\* resumes before any other call is made.
InitGame(pick) ==
    /\ status = "IDLE"
    /\ toneStarting = 0
    /\ Initialize
    /\ Regenerate(pick)
    /\ lastMove' = NoMove
    /\ UNCHANGED <<generatorVars, toneStarting>>

\* regenerateWorld, offered by the UI once the game has started.
RegenerateWorld(pick) ==
    /\ status # "IDLE"
    /\ Regenerate(pick)
    /\ lastMove' = NoMove
    /\ UNCHANGED <<generatorVars, audioVars>>

\* rotateView without its setTimeout.
RotateView_noTimer(direction) ==
    /\ UNCHANGED <<generatorVars, audioVars>>
    /\ IF isRotatingView \/ status # "PLAYING"
       THEN /\ lastMove' = NoMove
            /\ UNCHANGED <<status, level, groupStates, playerNodeId,
                           globalRotationIndex, isRotatingView, stepTimers, rotTimers>>
       ELSE LET newIndex == IF direction = "left" THEN globalRotationIndex + 1
                            ELSE globalRotationIndex - 1
            IN /\ Abs(newIndex) <= MaxIndex
               /\ isRotatingView' = TRUE
               /\ globalRotationIndex' = newIndex
               /\ lastMove' = NoMove
               /\ UNCHANGED <<status, level, groupStates, playerNodeId, stepTimers,
                              rotTimers>>

RotateView(direction) ==
    /\ UNCHANGED <<generatorVars, audioVars>>
    /\ IF isRotatingView \/ status # "PLAYING"
       THEN /\ lastMove' = NoMove
            /\ UNCHANGED <<status, level, groupStates, playerNodeId,
                           globalRotationIndex, isRotatingView, stepTimers, rotTimers>>
       ELSE LET newIndex == IF direction = "left" THEN globalRotationIndex + 1
                            ELSE globalRotationIndex - 1
            IN /\ Abs(newIndex) <= MaxIndex
               /\ isRotatingView' = TRUE
               /\ globalRotationIndex' = newIndex
               /\ rotTimers' = rotTimers + 1
               /\ lastMove' = NoMove
               /\ UNCHANGED <<status, level, groupStates, playerNodeId, stepTimers>>

\* setTimeout(() => set({ isRotatingView: false }), 800)
RotateTimer ==
    /\ rotTimers > 0
    /\ rotTimers' = rotTimers - 1
    /\ isRotatingView' = FALSE
    /\ lastMove' = NoMove
    /\ UNCHANGED <<status, level, groupStates, playerNodeId, globalRotationIndex,
                   stepTimers>>
    /\ UNCHANGED <<generatorVars, audioVars>>

\* setGlobalRotationIndex, called by World's onDragEnd while PLAYING.
SetGlobalRotationIndex(index) ==
    /\ status = "PLAYING"
    /\ globalRotationIndex' = index
    /\ lastMove' = NoMove
    /\ UNCHANGED <<status, level, groupStates, playerNodeId, isRotatingView,
                   stepTimers, rotTimers>>
    /\ UNCHANGED <<generatorVars, audioVars>>

\* SliderLimit never finding the level group: always the default.
SliderLimit_default(groups, groupId) ==
    <<0, 100 * Scale>>

\* The [min, max] interactGroup clamps a slider to.
SliderLimit(groups, groupId) ==
    LET levelGroup == FindGroup(groups, groupId)
    IN IF groupId \in GroupIds(groups) /\ levelGroup.limit # NoVal
       THEN levelGroup.limit
       ELSE <<0, 100 * Scale>>

InteractGroup(groupId, delta) ==
    /\ UNCHANGED <<generatorVars, audioVars>>
    /\ IF status # "PLAYING" \/ groupId \notin DOMAIN groupStates
       THEN /\ lastMove' = NoMove
            /\ UNCHANGED <<status, level, groupStates, playerNodeId,
                           globalRotationIndex, isRotatingView, stepTimers, rotTimers>>
       ELSE LET group == groupStates[groupId]
                newRot == MathRound(group.rotationValue * Scale + delta)
                limit == SliderLimit(level.groups, groupId)
                min == Min(limit[1], limit[2])
                max == Max(limit[1], limit[2])
                newOffset == Max(min, Min(max, group.offsetValue + delta))
            IN /\ group.type = "ROTATOR" => Abs(newRot) <= MaxRot
               /\ group.type = "SLIDER" => Abs(newOffset) <= MaxOffset * Scale
               /\ groupStates' =
                     IF group.type = "ROTATOR"
                     THEN [groupStates EXCEPT ![groupId].rotationValue = newRot]
                     ELSE IF group.type = "SLIDER"
                          THEN [groupStates EXCEPT ![groupId].offsetValue = newOffset]
                          ELSE groupStates
               /\ lastMove' = NoMove
               /\ UNCHANGED <<status, level, playerNodeId, globalRotationIndex,
                              isRotatingView, stepTimers, rotTimers>>

\* checkWinCondition: the status once the walk has ended.
checkWinCondition(player, nodes, st) ==
    LET node == FindNode(nodes, player)
    IN IF player \in NodeIds(nodes) /\ node.isGoal THEN "COMPLETED" ELSE st

\* ------------------------------------------------------------------ generator
\* The inputs of addNode: three positions (half a unit apart along x, a
\* whole unit apart along z), two groups, two block types.
GenSpots == {<<0, 0, 0>>, <<1, 0, 0>>, <<0, 0, Scale>>}
GenGroups == {"base", "rotator"}
GenTypes == {"CUBE", "DOME"}

\* WorldGenerator.reset
Reset ==
    /\ _nodes' = <<>>
    /\ _nodeId' = 0
    /\ goalCalls' = {}
    /\ UNCHANGED <<status, level, groupStates, playerNodeId, globalRotationIndex,
                   isRotatingView, stepTimers, rotTimers, lastMove, audioVars>>

\* The predicate of addNode's find: same group, within 0.1 on every axis.
sameSpot(n, pos, groupId) ==
    /\ n.groupId = groupId
    /\ 10 * Abs(n.localPos[1] - pos[1]) < Scale
    /\ 10 * Abs(n.localPos[2] - pos[2]) < Scale
    /\ 10 * Abs(n.localPos[3] - pos[3]) < Scale

\* addNode overwriting the walkability and the type of the node it finds.
addNode_overwrite(nodes, nodeId, pos, groupId, type, isWalkable, isGoal) ==
    IF \E i \in 1..Len(nodes) : sameSpot(nodes[i], pos, groupId)
    THEN LET e == CHOOSE i \in 1..Len(nodes) :
                     /\ sameSpot(nodes[i], pos, groupId)
                     /\ \A j \in 1..(i - 1) : ~sameSpot(nodes[j], pos, groupId)
         IN [nodes |-> [nodes EXCEPT ![e].isWalkable = isWalkable, ![e].type = type],
             nodeId |-> nodeId]
    ELSE [nodes |-> Append(nodes, GameNode(nodeId, pos, groupId, type, isWalkable, isGoal)),
          nodeId |-> nodeId + 1]

\* addNode: the node list and the id counter after the call.
addNode(nodes, nodeId, pos, groupId, type, isWalkable, isGoal) ==
    IF \E i \in 1..Len(nodes) : sameSpot(nodes[i], pos, groupId)
    THEN LET e == CHOOSE i \in 1..Len(nodes) :
                     /\ sameSpot(nodes[i], pos, groupId)
                     /\ \A j \in 1..(i - 1) : ~sameSpot(nodes[j], pos, groupId)
         IN [nodes |-> IF ~nodes[e].isWalkable /\ isWalkable
                       THEN [nodes EXCEPT ![e].isWalkable = TRUE, ![e].type = type]
                       ELSE nodes,
             nodeId |-> nodeId]
    ELSE [nodes |-> Append(nodes, GameNode(nodeId, pos, groupId, type, isWalkable, isGoal)),
          nodeId |-> nodeId + 1]

\* One addNode call of a generate* function, while the list holds fewer than
\* MaxNodes nodes or the call lands on an occupied spot.
AddNode(pos, groupId, type, isWalkable, isGoal) ==
    LET after == addNode(_nodes, _nodeId, pos, groupId, type, isWalkable, isGoal)
    IN /\ Len(after.nodes) <= MaxNodes
       /\ _nodes' = after.nodes
       /\ _nodeId' = after.nodeId
       /\ goalCalls' = IF isGoal THEN goalCalls \cup {<<groupId, pos>>} ELSE goalCalls
       /\ UNCHANGED <<status, level, groupStates, playerNodeId, globalRotationIndex,
                      isRotatingView, stepTimers, rotTimers, lastMove, audioVars>>

GeneratorNext ==
    \/ Reset
    \/ \E pos \in GenSpots, groupId \in GenGroups, type \in GenTypes,
          isWalkable \in BOOLEAN, isGoal \in BOOLEAN :
          AddNode(pos, groupId, type, isWalkable, isGoal)

\* The world generator alone: any sequence of reset and addNode calls.
GeneratorSpec == Init /\ [][GeneratorNext]_vars

\* The guard without "|| playerNodeId === targetNodeId".
MoveGuard_statusOnly(targetNodeId) ==
    status # "PLAYING"

\* The guard without "status !== GameStatus.PLAYING ||".
MoveGuard_targetOnly(targetNodeId) ==
    playerNodeId = targetNodeId

\* movePlayer's first line: the calls that return at once.
MoveGuard(targetNodeId) ==
    status # "PLAYING" \/ playerNodeId = targetNodeId

\* step scheduling step(idx + 2) in place of step(idx + 1).
Step_skip(path, idx, timers) ==
    IF idx >= Len(path)
    THEN /\ status' = checkWinCondition(playerNodeId, level.nodes, status)
         /\ stepTimers' = timers
         /\ UNCHANGED playerNodeId
    ELSE /\ playerNodeId' = path[idx + 1]
         /\ stepTimers' = Append(timers, [path |-> path, idx |-> idx + 2])
         /\ UNCHANGED status

\* step(idx) of a walk along path (idx counts from 0 as in the code): the win
\* check past the end, else one hop and the timer for the next.
Step(path, idx, timers) ==
    IF idx >= Len(path)
    THEN /\ status' = checkWinCondition(playerNodeId, level.nodes, status)
         /\ stepTimers' = timers
         /\ UNCHANGED playerNodeId
    ELSE /\ playerNodeId' = path[idx + 1]
         /\ stepTimers' = Append(timers, [path |-> path, idx |-> idx + 1])
         /\ UNCHANGED status

movePlayer(targetNodeId) ==
    /\ UNCHANGED <<generatorVars, audioVars>>
    /\ IF MoveGuard(targetNodeId)
       THEN /\ lastMove' = Move(targetNodeId, playerNodeId, "guard", NoVal, 0)
            /\ UNCHANGED <<status, level, groupStates, playerNodeId,
                           globalRotationIndex, isRotatingView, stepTimers, rotTimers>>
       ELSE IF Throws(playerNodeId, level.nodes)
       THEN /\ lastMove' = Move(targetNodeId, playerNodeId, "TypeError", NoVal, 1)
            /\ UNCHANGED <<status, level, groupStates, playerNodeId,
                           globalRotationIndex, isRotatingView, stepTimers, rotTimers>>
       ELSE LET found == FindPath(playerNodeId, targetNodeId, level.nodes,
                                  groupStates, globalRotationIndex)
            IN IF found.path = NoVal
               THEN /\ lastMove' = Move(targetNodeId, playerNodeId, "nopath",
                                        NoVal, found.dequeued)
                    /\ UNCHANGED <<status, level, groupStates, playerNodeId,
                                   globalRotationIndex, isRotatingView, stepTimers,
                                   rotTimers>>
               ELSE /\ Step(found.path, 1, stepTimers)
                    /\ lastMove' = Move(targetNodeId, playerNodeId, "path",
                                        found.path, found.dequeued)
                    /\ UNCHANGED <<level, groupStates, globalRotationIndex,
                                   isRotatingView, rotTimers>>

\* movePlayer called while fewer than MaxTimers walks are under way.
MovePlayer(targetNodeId) ==
    /\ Len(stepTimers) < MaxTimers
    /\ movePlayer(targetNodeId)

\* A step timer fires: step(idx) of the walk that set it.
StepTimer ==
    /\ stepTimers # <<>>
    /\ Step(Head(stepTimers).path, Head(stepTimers).idx, Tail(stepTimers))
    /\ lastMove' = NoMove
    /\ UNCHANGED <<level, groupStates, globalRotationIndex, isRotatingView, rotTimers>>
    /\ UNCHANGED <<generatorVars, audioVars>>

Next ==
    \/ \E pick \in 1..Len(Levels) : InitGame(pick)
    \/ \E pick \in 1..Len(Levels) : RegenerateWorld(pick)
    \/ \E direction \in {"left", "right"} : RotateView(direction)
    \/ RotateTimer
    \/ \E index \in (-MaxIndex)..MaxIndex : SetGlobalRotationIndex(index)
    \/ \E groupId \in AnyGroupId, delta \in Deltas : InteractGroup(groupId, delta)
    \/ \E targetNodeId \in AnyNodeId : MovePlayer(targetNodeId)
    \/ StepTimer

Spec == Init /\ [][Next]_vars

\* initGame up to its await: initialize returns at once when the flag is set
\* (initGame then runs on), else it is suspended at "await Tone.start()".
InitGameCall(pick) ==
    /\ status = "IDLE"
    /\ toneStarting < MaxCalls
    /\ lastMove' = NoMove
    /\ UNCHANGED generatorVars
    /\ IF isInitialized
       THEN /\ Regenerate(pick)
            /\ UNCHANGED audioVars
       ELSE /\ toneStarting' = toneStarting + 1
            /\ UNCHANGED <<status, level, groupStates, playerNodeId,
                           globalRotationIndex, isRotatingView, stepTimers,
                           rotTimers, isInitialized, chains>>

\* Tone.start() resolves for one suspended call: initialize builds the
\* effects chain and the synths, sets the flag and starts the ambience
\* loop; initGame then regenerates the world and sets PLAYING.
ToneStarted(pick) ==
    /\ toneStarting > 0
    /\ toneStarting' = toneStarting - 1
    /\ chains' = chains + 1
    /\ isInitialized' = TRUE
    /\ Regenerate(pick)
    /\ lastMove' = NoMove
    /\ UNCHANGED generatorVars

AudioNext ==
    \/ \E pick \in 1..Len(Levels) : InitGameCall(pick)
    \/ \E pick \in 1..Len(Levels) : ToneStarted(pick)
    \/ \E pick \in 1..Len(Levels) : RegenerateWorld(pick)
    \/ \E index \in (-MaxIndex)..MaxIndex : SetGlobalRotationIndex(index)
    \/ \E groupId \in AnyGroupId, delta \in Deltas : InteractGroup(groupId, delta)

\* The page from its first click: initGame as the asynchronous function it
\* is, its calls overlapping, beside the level, view and group operations.
AudioSpec == Init /\ [][AudioNext]_vars

\* The store with its timers: a callback handed to setTimeout is run by the
\* event loop once its delay has passed.
FairSpec == Spec /\ WF_vars(RotateTimer) /\ WF_vars(StepTimer)

\* movePlayer called while another walk may still be stepping: World calls it
\* on every click of a block, with no check for a walk under way.
OverlappingMovePlayer(targetNodeId) ==
    /\ Len(stepTimers) < MaxWalks
    /\ movePlayer(targetNodeId)

WalkNext ==
    \/ \E pick \in 1..Len(Levels) : InitGame(pick)
    \/ \E groupId \in AnyGroupId, delta \in Deltas : InteractGroup(groupId, delta)
    \/ \E targetNodeId \in AnyNodeId : OverlappingMovePlayer(targetNodeId)
    \/ StepTimer

\* The store within one level and one view, with up to MaxWalks walks under
\* way at once.
WalkSpec == Init /\ [][WalkNext]_vars

\* ------------------------------------------------------------------ properties
\* The positions and the neighbour relation of the current state, written
\* from the two rules rather than through getNeighbors.
PosNow(id) == getWorldPosition(FindNode(level.nodes, id), groupStates)

Adjacent(a, b) ==
    /\ a \in NodeIds(level.nodes)
    /\ b \in NodeIds(level.nodes)
    /\ a # b
    /\ FindNode(level.nodes, b).isWalkable
    /\ \/ PhysicalCheck(PosNow(a), PosNow(b))
       \/ VisualCheck(PosNow(a), PosNow(b), globalRotationIndex)

RECURSIVE Within(_, _)
\* The ids at most k hops from start.
Within(start, k) ==
    IF k <= 0 THEN {start}
    ELSE LET near == Within(start, k - 1)
         IN near \cup {b \in NodeIds(level.nodes) : \E a \in near : Adjacent(a, b)}

Reachable(start, target) == target \in Within(start, Len(level.nodes))

\* movePlayer changes neither the level, the group states nor the view, so in
\* the state it leaves they are the ones its query read.

\* C1: every path the search returns runs from the player's node to the
\* target, and each consecutive pair of it is adjacent, physically or
\* optically, under the group states and view of the query.
C1_PathStepsAdjacent ==
    lastMove.result = "path" =>
        LET p == lastMove.path
        IN /\ Len(p) >= 1
           /\ p[1] = lastMove.start
           /\ p[Len(p)] = lastMove.target
           /\ \A i \in 1..(Len(p) - 1) : Adjacent(p[i], p[i + 1])

\* A found path of three or more hops, one of them an optical connection.
C1_Witness ==
    /\ lastMove.result = "path"
    /\ Len(lastMove.path) >= 4
    /\ \E i \in 1..(Len(lastMove.path) - 1) :
          ~PhysicalCheck(PosNow(lastMove.path[i]), PosNow(lastMove.path[i + 1]))

\* C2: whenever the target is reachable a path is found, and the path found
\* has the fewest hops possible: no node sequence with fewer edges joins the
\* start to the target.
C2_ShortestPath ==
    /\ lastMove.result = "path" =>
          lastMove.target \notin Within(lastMove.start, Len(lastMove.path) - 2)
    /\ (lastMove.result = "nopath" /\ lastMove.start \in NodeIds(level.nodes)) =>
          ~Reachable(lastMove.start, lastMove.target)

\* A shortest path of N = 4 hops found while a longer route to the target
\* existed as well (the search had more paths queued than it needed).
C2_Witness ==
    /\ lastMove.result = "path"
    /\ Len(lastMove.path) = 5
    /\ lastMove.dequeued > Len(lastMove.path)

C4_UnreachableIsNoPath ==
    [][(/\ lastMove'.result \in {"path", "nopath", "TypeError"}
        /\ playerNodeId \in NodeIds(level.nodes)
        /\ ~Reachable(playerNodeId, lastMove'.target)) =>
          /\ lastMove'.result = "nopath"
          /\ lastMove'.dequeued >= 1
          /\ UNCHANGED <<status, level, groupStates, playerNodeId,
                         globalRotationIndex, isRotatingView, stepTimers, rotTimers>>]_vars

\* The search ran from a node that has neighbours, expanded several nodes
\* and exhausted its queue on a target that is a node of the level.
C4_Witness ==
    /\ lastMove.result = "nopath"
    /\ lastMove.dequeued >= 3
    /\ lastMove.target \in NodeIds(level.nodes)
    /\ lastMove.start = playerNodeId

\* C5: a move request whose start or target id is not the id of any node of
\* the level never raises an error and leaves the state unchanged.
C5_MissingNodeNoCrash ==
    (/\ lastMove.result # "none"
     /\ \/ lastMove.start \notin NodeIds(level.nodes)
        \/ lastMove.target \notin NodeIds(level.nodes)) =>
        lastMove.result \in {"guard", "nopath"}

\* The slider groups of the level with and without a configured limit.
Sliders == {g \in DOMAIN groupStates : groupStates[g].type = "SLIDER"}
Rotators == {g \in DOMAIN groupStates : groupStates[g].type = "ROTATOR"}
Configured(g) == FindGroup(level.groups, g).limit # NoVal

C7_NoLimitPinsOffset ==
    \A g \in Sliders : ~Configured(g) => groupStates[g].offsetValue = 0

\* C8: turning a rotator group by a full revolution, four more or four fewer
\* quarter turns, leaves the world position of every node and the neighbours
\* of every node as they are; and a +1 or -1 delta is one quarter turn.
C8_FullTurnIdentity ==
    \A g \in Rotators : \A d \in {-4, 4} :
        LET turned == [groupStates EXCEPT ![g].rotationValue = @ + d]
            r == groupStates[g].rotationValue
        IN /\ MathRound(r * Scale + Scale) = r + 1
           /\ MathRound(r * Scale - Scale) = r - 1
           /\ \A i \in 1..Len(level.nodes) :
                 getWorldPosition(level.nodes[i], turned)
                     = getWorldPosition(level.nodes[i], groupStates)
           /\ \A id \in NodeIds(level.nodes) :
                 getNeighbors(id, level.nodes, WorldPositions(level.nodes, turned),
                              globalRotationIndex)
                     = getNeighbors(id, level.nodes,
                                    WorldPositions(level.nodes, groupStates),
                                    globalRotationIndex)

\* A rotator turned backwards by an odd number of quarter turns, which has
\* carried one of its nodes away from where it is at rotationValue 0.
C8_Witness ==
    \E g \in Rotators :
        /\ groupStates[g].rotationValue < 0
        /\ groupStates[g].rotationValue % 2 = 1
        /\ \E i \in 1..Len(level.nodes) :
              /\ level.nodes[i].groupId = g
              /\ getWorldPosition(level.nodes[i], groupStates)
                    # getWorldPosition(level.nodes[i],
                                       [groupStates EXCEPT ![g].rotationValue = 0])

\* One quarter turn about the vertical axis, taking (1,0,0) to (0,0,-1), and
\* its inverse.
QuarterTurn(v) == <<v[3], v[2], -v[1]>>
QuarterBack(v) == <<-v[3], v[2], v[1]>>

RECURSIVE Turns(_, _)
Turns(v, k) ==
    IF k = 0 THEN v
    ELSE IF k > 0 THEN QuarterTurn(Turns(v, k - 1))
         ELSE QuarterBack(Turns(v, k + 1))

UnitAlong(axis) ==
    CASE axis = "x" -> <<1, 0, 0>> [] axis = "y" -> <<0, 1, 0>> [] axis = "z" -> <<0, 0, 1>>

DialStates(k) ==
    [dial |-> [id |-> "dial", type |-> "ROTATOR", initialPos |-> <<0, 0, 0>>,
               pivot |-> <<0, 0, 0>>, axis |-> NoAxis,
               rotationValue |-> k, offsetValue |-> 0]]

C10_RenderMatchesResolver ==
    \A i \in 1..Len(level.nodes) :
        MechanismGroupPosition(level.nodes[i], groupStates)
            = getWorldPosition(level.nodes[i], groupStates)

\* The kind of a step from position a to position b, by its height delta with
\* the flat tolerance 0.1, and the kind of the step back.
Kind(a, b) ==
    IF 10 * Abs(b[2] - a[2]) <= Scale THEN "Walk"
    ELSE IF b[2] > a[2] THEN "ClimbUp" ELSE "JumpDown"

Inverse(kind) ==
    CASE kind = "Walk" -> "Walk"
      [] kind = "ClimbUp" -> "JumpDown"
      [] kind = "JumpDown" -> "ClimbUp"

\* C11: physical adjacency is symmetric with inverse kinds: whenever the
\* physical check accepts the step from A to B it accepts the step from B to
\* A, and the step back is a Walk for a Walk, a JumpDown for a ClimbUp.
C11_PhysicalSymmetric ==
    \A a, b \in NodeIds(level.nodes) :
        (a # b /\ PhysicalCheck(PosNow(a), PosNow(b))) =>
            /\ PhysicalCheck(PosNow(b), PosNow(a))
            /\ Kind(PosNow(b), PosNow(a)) = Inverse(Kind(PosNow(a), PosNow(b)))

\* A level in play where one physically adjacent pair is a climb and another
\* a level walk.
C11_Witness ==
    /\ \E a, b \in NodeIds(level.nodes) :
          /\ PhysicalCheck(PosNow(a), PosNow(b))
          /\ Kind(PosNow(a), PosNow(b)) = "ClimbUp"
    /\ \E a, b \in NodeIds(level.nodes) :
          /\ PhysicalCheck(PosNow(a), PosNow(b))
          /\ Kind(PosNow(a), PosNow(b)) = "Walk"

\* The squared planar (x, z) distance of two positions, and the rise from a
\* to b.
HorizontalSq(a, b) ==
    (a[1] - b[1]) * (a[1] - b[1]) + (a[3] - b[3]) * (a[3] - b[3])

Rise(a, b) == b[2] - a[2]

\* Planar distance within the band 0.85 .. 1.15 and rise within [-2.1, 1.1].
BandClassifier(a, b) ==
    /\ 400 * HorizontalSq(a, b) > 289 * Scale * Scale
    /\ 400 * HorizontalSq(a, b) < 529 * Scale * Scale
    /\ 10 * Rise(a, b) <= 11 * Scale
    /\ 10 * Rise(a, b) >= -21 * Scale

\* C12: the physical check accepts a pair exactly when its planar distance
\* is within the band around 1.0 and its height delta within [-2.1, 1.1]; a
\* pair outside the band, such as two stacked nodes, is never accepted.
C12_PlanarBandClassifier ==
    \A a, b \in NodeIds(level.nodes) :
        a # b => (PhysicalCheck(PosNow(a), PosNow(b)) <=> BandClassifier(PosNow(a), PosNow(b)))

\* The block kinds that are stairs or ramps.
StairKinds == {"STAIR"}

\* C13: no path found contains a step that climbs, its destination higher
\* than its origin by more than the flat tolerance 0.1, onto a node whose
\* block kind is not a stair or ramp.
C13_ClimbOnlyOntoStairs ==
    lastMove.result = "path" =>
        \A i \in 1..(Len(lastMove.path) - 1) :
            LET from == lastMove.path[i]
                to == lastMove.path[i + 1]
            IN 10 * Rise(PosNow(from), PosNow(to)) > Scale =>
                  FindNode(level.nodes, to).type \in StairKinds

\* b is a neighbour of a by the visual check alone.
OpticalOnly(a, b) ==
    /\ Adjacent(a, b)
    /\ ~PhysicalCheck(PosNow(a), PosNow(b))

\* C14: an optical connection between two nodes exists only if both nodes
\* carry the optical-bridge marker; with the marker off on either node the
\* pair is not optically connected.
C14_OpticalNeedsMarkers ==
    \A a, b \in NodeIds(level.nodes) :
        OpticalOnly(a, b) =>
            /\ opticalMarker(FindNode(level.nodes, a))
            /\ opticalMarker(FindNode(level.nodes, b))

\* The front view (index 0) projects onto the x-y plane and hides z: the
\* squared screen distance of two positions and their depth separation.
ScreenSq0(a, b) ==
    (a[1] - b[1]) * (a[1] - b[1]) + (a[2] - b[2]) * (a[2] - b[2])

Depth0(a, b) == Abs(a[3] - b[3])

\* C15: under view 0, two walkable nodes whose screen projections overlap
\* (screen distance at most 0.1) while their depth separation is 3.0 are
\* connected by the optical rule.
C15_OverlapConnects ==
    ViewIndex(globalRotationIndex) = 0 =>
        \A a, b \in NodeIds(level.nodes) :
            (/\ a # b
             /\ FindNode(level.nodes, a).isWalkable
             /\ FindNode(level.nodes, b).isWalkable
             /\ 100 * ScreenSq0(PosNow(a), PosNow(b)) <= Scale * Scale
             /\ Depth0(PosNow(a), PosNow(b)) = 3 * Scale) =>
                VisualCheck(PosNow(a), PosNow(b), globalRotationIndex)

\* The squared screen distance and the depth separation of two positions
\* under a view: views 0 and 2 hide z, views 1 and 3 hide x.
ScreenSq(a, b, index) ==
    IF ViewIndex(index) \in {0, 2}
    THEN ScreenSq0(a, b)
    ELSE (a[3] - b[3]) * (a[3] - b[3]) + (a[2] - b[2]) * (a[2] - b[2])

Depth(a, b, index) ==
    IF ViewIndex(index) \in {0, 2} THEN Abs(a[3] - b[3]) ELSE Abs(a[1] - b[1])

Obstructed(a, b) ==
    \E i \in 1..Len(level.nodes) :
        /\ ~level.nodes[i].isWalkable
        /\ 25 * DistSq(VMul(getWorldPosition(level.nodes[i], groupStates), 2), VAdd(a, b))
              < 16 * Scale * Scale

\* C17: two walkable nodes that pass the physical check are not connected
\* when a non-walkable node lies within the guard radius of the midpoint of
\* their positions.
C17_CollisionGuardBlocks ==
    \A a, b \in NodeIds(level.nodes) :
        (/\ FindNode(level.nodes, a).isWalkable
         /\ Adjacent(a, b)
         /\ PhysicalCheck(PosNow(a), PosNow(b))) =>
            ~Obstructed(PosNow(a), PosNow(b))

\* C18: a found path p is walked as returned. movePlayer puts the player on
\* p1 and leaves the walk pending at p2; each time the walk's timer fires the
\* player is put on the next node of p, in order, and when p is used up the win
\* condition is checked and the walk is over; no other operation changes a
\* pending walk's path or its position in it.
C18_WalkFollowsPath ==
    [][IF lastMove'.result = "path"
       THEN /\ playerNodeId' = lastMove'.path[2]
            /\ stepTimers' = Append(stepTimers, [path |-> lastMove'.path, idx |-> 2])
       ELSE \/ stepTimers' = stepTimers
            \/ /\ stepTimers # <<>>
               /\ LET walk == Head(stepTimers)
                  IN IF walk.idx < Len(walk.path)
                     THEN /\ playerNodeId' = walk.path[walk.idx + 1]
                          /\ stepTimers' = Append(Tail(stepTimers),
                                                  [path |-> walk.path, idx |-> walk.idx + 1])
                          /\ status' = status
                     ELSE /\ stepTimers' = Tail(stepTimers)
                          /\ playerNodeId' = playerNodeId
                          /\ status' = checkWinCondition(playerNodeId, level.nodes, status)]_vars

\* A walk two or more nodes along whose remaining hops are no longer
\* connected: the world was changed after the path was returned.
C18_Witness ==
    /\ stepTimers # <<>>
    /\ LET walk == Head(stepTimers)
       IN /\ walk.idx >= 3
          /\ walk.idx < Len(walk.path)
          /\ playerNodeId = walk.path[walk.idx]
          /\ ~Adjacent(walk.path[walk.idx], walk.path[walk.idx + 1])

\* C19: for every globalRotationIndex the store holds, negative ones
\* included, the view the optical rule uses is an index in 0..3 equal to the
\* index modulo 4, and an index four more or four less gives every node the
\* same neighbours.
C19_ViewIndexModFour ==
    /\ ViewIndex(globalRotationIndex) \in 0..3
    /\ ViewIndex(globalRotationIndex) = globalRotationIndex % 4
    /\ \A d \in {-4, 4} :
          /\ ViewIndex(globalRotationIndex + d) = ViewIndex(globalRotationIndex)
          /\ \A id \in NodeIds(level.nodes) :
                getNeighbors(id, level.nodes, WorldPositions(level.nodes, groupStates),
                             globalRotationIndex + d)
                    = getNeighbors(id, level.nodes,
                                   WorldPositions(level.nodes, groupStates),
                                   globalRotationIndex)

\* A negative view index under which some pair is connected by the visual
\* check alone.
C19_Witness ==
    /\ globalRotationIndex < 0
    /\ \E a, b \in NodeIds(level.nodes) : OpticalOnly(a, b)

\* The fewest hops from start to a target it can reach.
Hops(start, target) ==
    CHOOSE k \in 0..Len(level.nodes) :
        /\ target \in Within(start, k)
        /\ \A j \in 0..(k - 1) : target \notin Within(start, j)

\* The next hop from cur that comes first in the node list among those lying
\* on a path of the given number of hops to the target.
FirstHop(cur, target, hops) ==
    LET onTheWay(i) == /\ Adjacent(cur, level.nodes[i].id)
                       /\ target \in Within(level.nodes[i].id, hops - 1)
        first == CHOOSE i \in 1..Len(level.nodes) :
                    onTheWay(i) /\ \A j \in 1..(i - 1) : ~onTheWay(j)
    IN level.nodes[first].id

RECURSIVE FirstShortest(_, _, _)
\* Among the paths of that many hops from cur to the target, the one whose
\* nodes come first in node-list order, hop by hop.
FirstShortest(cur, target, hops) ==
    IF hops = 0 THEN <<cur>>
    ELSE <<cur>> \o FirstShortest(FirstHop(cur, target, hops), target, hops - 1)

\* C20: for given nodes, group states, view, start and target the search
\* returns one determined path: among all shortest paths, the one discovered
\* first when the neighbours of each node are enumerated in node-list order.
C20_FirstDiscoveredShortest ==
    lastMove.result = "path" =>
        lastMove.path = FirstShortest(lastMove.start, lastMove.target,
                                      Hops(lastMove.start, lastMove.target))

\* A found path of two or more hops where a different first hop would have
\* reached the target in as few hops: a tie the search had to break.
C20_Witness ==
    /\ lastMove.result = "path"
    /\ Len(lastMove.path) >= 3
    /\ \E b \in NodeIds(level.nodes) :
          /\ b # lastMove.path[2]
          /\ Adjacent(lastMove.start, b)
          /\ lastMove.target \in Within(b, Len(lastMove.path) - 2)

\* ------------------------------------------------------------------ C21
\* C21: the search of movePlayer terminates on every finite level: a node is
\* marked visited when it is enqueued and never enqueued again, so a search
\* that ran shifted at most as many paths off its queue as the level has
\* nodes.
C21_SearchDequeuesEachNodeOnce ==
    lastMove.result \in {"path", "nopath"} =>
        lastMove.dequeued <= Len(level.nodes)

\* A search that exhausted its queue on a level whose walkable nodes form a
\* cycle, after shifting four paths.
C21_Witness ==
    /\ lastMove.result = "nopath"
    /\ lastMove.dequeued >= 4
    /\ \E a, b, c \in NodeIds(level.nodes) :
          /\ a # b /\ b # c /\ a # c
          /\ Adjacent(a, b) /\ Adjacent(b, c)
          /\ \E d \in NodeIds(level.nodes) \ {a, b, c} :
                Adjacent(c, d) /\ Adjacent(d, a)

\* ------------------------------------------------------------------ C22
\* No two nodes of the list share a group and a position.
OneNodePerSpot(nodes) ==
    \A i, j \in 1..Len(nodes) :
        sameSpot(nodes[i], nodes[j].localPos, nodes[j].groupId) => i = j

\* Node n after a call is node m before it, untouched or promoted from
\* non-walkable to walkable with a block type of the call's choosing.
SameOrPromoted(m, n) ==
    \/ n = m
    \/ /\ ~m.isWalkable
       /\ n.isWalkable
       /\ n = [m EXCEPT !.isWalkable = TRUE, !.type = n.type]

\* C22: over any sequence of addNode calls no second node is added at an
\* occupied (group, position); a call leaves every existing node as it was
\* or promotes it from non-walkable to walkable, and never demotes one.
C22_AddNodeDeduplicates ==
    [][_nodes' # <<>> =>
          /\ OneNodePerSpot(_nodes')
          /\ Len(_nodes') \in {Len(_nodes), Len(_nodes) + 1}
          /\ \A i \in 1..Len(_nodes) : SameOrPromoted(_nodes[i], _nodes'[i])]_vars

\* A call with isGoal landed on the spot of the first node, which is still
\* the only node there and no goal, beside a second node elsewhere.
C22_Witness ==
    /\ Len(_nodes) = 2
    /\ _nodeId = 2
    /\ _nodes[1].isWalkable
    /\ _nodes[1].type = "DOME"
    /\ ~_nodes[1].isGoal
    /\ <<_nodes[1].groupId, _nodes[1].localPos>> \in goalCalls

\* ------------------------------------------------------------------ C23
\* C23: every (group, position) that some addNode call named with isGoal =
\* true holds a goal node in the node list, also when a node had been added
\* there before; a generate* function that ends by adding the goal dome
\* therefore builds a level with a goal.
C23_GoalCallLeavesGoal ==
    \A c \in goalCalls :
        \E i \in 1..Len(_nodes) :
            sameSpot(_nodes[i], c[2], c[1]) /\ _nodes[i].isGoal

\* ------------------------------------------------------------------ C24
\* C24: whenever the status is COMPLETED the player stands on a goal node of
\* the level (the status is set by the win check of a walk that ended on a
\* goal and the player's node does not change afterwards).
C24_CompletedOnGoal ==
    status = "COMPLETED" =>
        /\ playerNodeId \in NodeIds(level.nodes)
        /\ FindNode(level.nodes, playerNodeId).isGoal

\* ------------------------------------------------------------------ C25
\* C25: every change of playerNodeId made by a walk moves the player to a
\* neighbour, under the group states and the view in force at that step, of
\* the node it leaves, whatever movePlayer and interactGroup calls come
\* between the step timers.
C25_HopsToNeighbour ==
    [][(playerNodeId' # playerNodeId /\ level' = level) =>
          Adjacent(playerNodeId, playerNodeId')]_vars

\* ------------------------------------------------------------------ C26
\* C26: in every state after the first regenerateWorld, playerNodeId is the
\* id of a node of the current level, also when regenerateWorld replaced the
\* level while step timers of the previous level's walk were pending.
C26_PlayerOnLevelNode ==
    status # "IDLE" => playerNodeId \in NodeIds(level.nodes)

\* ------------------------------------------------------------------ C27
\* C27: every node a move steps onto is walkable: the path a search returns
\* holds no non-walkable node, except possibly its first element.
C27_PathNodesWalkable ==
    lastMove.result = "path" =>
        \A i \in 2..Len(lastMove.path) :
            FindNode(level.nodes, lastMove.path[i]).isWalkable

\* A path found from a non-walkable node the player had been left on, past a
\* further hop.
C27_Witness ==
    /\ lastMove.result = "path"
    /\ Len(lastMove.path) >= 3
    /\ ~FindNode(level.nodes, lastMove.path[1]).isWalkable

\* ------------------------------------------------------------------ C28
\* The game state and the pending timers, without the model's record of the
\* latest movePlayer call.
gameState ==
    <<status, level, groupStates, playerNodeId, globalRotationIndex,
      isRotatingView, stepTimers, rotTimers>>

\* C28: while the status is not PLAYING, a movePlayer, interactGroup or
\* rotateView call leaves the whole game state unchanged and schedules no
\* timer; an interactGroup call with an unknown group id changes nothing in
\* any status.
C28_IdleCallsChangeNothing ==
    [][/\ (/\ status # "PLAYING"
           /\ \/ \E targetNodeId \in AnyNodeId : MovePlayer(targetNodeId)
              \/ \E groupId \in AnyGroupId, delta \in Deltas :
                    InteractGroup(groupId, delta)
              \/ \E direction \in {"left", "right"} : RotateView(direction))
          => UNCHANGED gameState
       /\ (\E groupId \in AnyGroupId \ DOMAIN groupStates, delta \in Deltas :
              InteractGroup(groupId, delta))
          => UNCHANGED gameState]_vars

\* A movePlayer call for another node, refused on a completed level that
\* has a group the player could otherwise move.
C28_Witness ==
    /\ status = "COMPLETED"
    /\ lastMove.result = "guard"
    /\ lastMove.target # playerNodeId
    /\ lastMove.target \in NodeIds(level.nodes)
    /\ Len(level.groups) > 1

\* ------------------------------------------------------------------ C29
\* C29: an accepted rotateView call changes globalRotationIndex by exactly
\* +1 (left) or -1 (right) and sets isRotatingView; a rotateView call made
\* while isRotatingView is true changes nothing; and after each accepted
\* call isRotatingView eventually becomes false again, when its 800 ms
\* timer fires.
C29_RotateViewOnceAndUnlocks ==
    /\ [][\A direction \in {"left", "right"} :
             RotateView(direction) =>
                 IF isRotatingView
                 THEN UNCHANGED gameState
                 ELSE status = "PLAYING" =>
                        /\ isRotatingView'
                        /\ globalRotationIndex' = globalRotationIndex +
                               (IF direction = "left" THEN 1 ELSE -1)]_vars
    /\ (isRotatingView ~> ~isRotatingView)

\* The view turned by an accepted call, its lock still held and its timer
\* pending.
C29_Witness ==
    /\ isRotatingView
    /\ rotTimers = 1
    /\ globalRotationIndex # 0
    /\ status = "PLAYING"

\* ------------------------------------------------------------------ C30
\* C30: AudioService.initialize builds the synth/effects chain and starts
\* the ambience loop at most once per page, however many initGame calls are
\* made and however they overlap.
C30_ChainBuiltOnce ==
    chains <= 1
====
